---- MODULE Spec2Model ----
(***************************************************************************)
(* The reverse-complement program (src/src/reverse_complement.rs) as a     *)
(* state machine.  The buffer is one sequence of bytes; slices into it are *)
(* half-open ranges of 0-based offsets [lo, hi).  Every call of            *)
(* split_and_reverse, reverse_complement and                               *)
(* reverse_complement_left_right is a task; rayon::join puts two child     *)
(* tasks in the task map and the parent waits for both.  Any live task may *)
(* take the next step, which gives every interleaving rayon can produce.   *)
(***************************************************************************)
EXTENDS Integers, Sequences, FiniteSets, TLC

VARIABLES
    desc,       \* the records the input text was written from (never changes)
    orig,       \* the buffer the previous run of the program started from
    input,      \* the buffer this run of the program started from
    buf,        \* data: the buffer being mutated in place
    tasks,      \* the live calls: task id (path of 0/1 from the root) -> frame
    status,     \* "running", "done" (buffer written), "panic", "overflow"
    pass,       \* how many times the program has been started on the text
    threshold,  \* the sequential threshold the engine runs with
    acc,        \* the task that took the last step, and the slices it touched
    table8,     \* Tables.table8, as Tables::new built it
    probe,      \* a byte and what the 8-bit table made of it (table runs only)
    log,        \* what the leaf loops of this run have taken from the cursors
    fasta       \* the FASTA generator (src/src/fasta.rs): threads, channels, output

vars == <<desc, orig, input, buf, tasks, status, pass, threshold, acc, table8, probe, log, fasta>>

-----------------------------------------------------------------------------
(* Bytes. *)

b_nl == 10
b_gt == 62
b_A == 65
b_B == 66
b_C == 67
b_D == 68
b_G == 71
b_H == 72
b_K == 75
b_M == 77
b_N == 78
b_R == 82
b_S == 83
b_T == 84
b_U == 85
b_V == 86
b_W == 87
b_X == b_W + 1      \* a byte the table has no entry for
b_Y == 89
b_a == 97
b_b == 98
b_c == 99
b_d == 100
b_g == 103
b_h == 104
b_k == 107
b_m == 109
b_n == 110
b_r == 114
b_s == 115
b_t == 116
b_u == 117
b_v == 118
b_w == 119
b_y == 121

Min(x, y) == IF x <= y THEN x ELSE y

-----------------------------------------------------------------------------
(* Tables *)

\* Faulty variant: A is complemented to U, as in RNA.
computed_cpl8_rna(c) ==
    CASE c \in {b_A, b_a} -> b_U
      [] c \in {b_C, b_c} -> b_G
      [] c \in {b_G, b_g} -> b_C
      [] c \in {b_T, b_t} -> b_A
      [] c \in {b_U, b_u} -> b_A
      [] c \in {b_M, b_m} -> b_K
      [] c \in {b_R, b_r} -> b_Y
      [] c \in {b_W, b_w} -> b_W
      [] c \in {b_S, b_s} -> b_S
      [] c \in {b_Y, b_y} -> b_R
      [] c \in {b_K, b_k} -> b_M
      [] c \in {b_V, b_v} -> b_B
      [] c \in {b_H, b_h} -> b_D
      [] c \in {b_D, b_d} -> b_H
      [] c \in {b_B, b_b} -> b_V
      [] c \in {b_N, b_n} -> b_N
      [] OTHER -> c

\* Faulty variant: H and D are both complemented to D.
computed_cpl8_unpaired(c) ==
    CASE c \in {b_A, b_a} -> b_T
      [] c \in {b_C, b_c} -> b_G
      [] c \in {b_G, b_g} -> b_C
      [] c \in {b_T, b_t} -> b_A
      [] c \in {b_U, b_u} -> b_A
      [] c \in {b_M, b_m} -> b_K
      [] c \in {b_R, b_r} -> b_Y
      [] c \in {b_W, b_w} -> b_W
      [] c \in {b_S, b_s} -> b_S
      [] c \in {b_Y, b_y} -> b_R
      [] c \in {b_K, b_k} -> b_M
      [] c \in {b_V, b_v} -> b_B
      [] c \in {b_H, b_h} -> b_D
      [] c \in {b_D, b_d} -> b_D
      [] c \in {b_B, b_b} -> b_V
      [] c \in {b_N, b_n} -> b_N
      [] OTHER -> c

computed_cpl8(c) ==
    CASE c \in {b_A, b_a} -> b_T
      [] c \in {b_C, b_c} -> b_G
      [] c \in {b_G, b_g} -> b_C
      [] c \in {b_T, b_t} -> b_A
      [] c \in {b_U, b_u} -> b_A
      [] c \in {b_M, b_m} -> b_K
      [] c \in {b_R, b_r} -> b_Y
      [] c \in {b_W, b_w} -> b_W
      [] c \in {b_S, b_s} -> b_S
      [] c \in {b_Y, b_y} -> b_R
      [] c \in {b_K, b_k} -> b_M
      [] c \in {b_V, b_v} -> b_B
      [] c \in {b_H, b_h} -> b_D
      [] c \in {b_D, b_d} -> b_H
      [] c \in {b_B, b_b} -> b_V
      [] c \in {b_N, b_n} -> b_N
      [] OTHER -> c

\* Tables::new, first loop: the 256 entries of table8.
new_table8 == [i \in 0..255 |-> computed_cpl8(i)]

\* Faulty variant: the two complemented bytes are not exchanged.
table16_not_exchanged(i) == table8[i \div 256] * 256 + table8[i % 256]

\* Tables::new, second loop: entry i of table16.
table16(i) == table8[i % 256] * 256 + table8[i \div 256]

cpl8(i) == table8[i]

cpl16(i) == table16(i)

-----------------------------------------------------------------------------
(* Slices: &mut [u8] as a range of offsets into the buffer. *)

Slice(lo, hi) == [lo |-> lo, hi |-> hi]

SLen(s) == s.hi - s.lo

\* The byte of buffer bf at 0-based offset o.
At(bf, o) == bf[o + 1]

\* s.split_at_mut(i)
split_at_mut(s, i) ==
    [head |-> Slice(s.lo, s.lo + i), tail |-> Slice(s.lo + i, s.hi)]

\* In the four definitions below `self` ranges over the one slice s, so
\* that s is read once however often the definition uses it.

\* Faulty variant: the items split off are also left in self.
split_off_left_kept(s, n) ==
    CHOOSE out \in
        {LET k == Min(SLen(self), n)
         IN  [part |-> Slice(self.lo, self.lo + k), rest |-> self] :
         self \in {s}} : TRUE

split_off_left(s, n) ==
    CHOOSE out \in
        {LET k == Min(SLen(self), n)
         IN  [part |-> Slice(self.lo, self.lo + k), rest |-> Slice(self.lo + k, self.hi)] :
         self \in {s}} : TRUE

\* Faulty variant: the items split off are also left in self.
split_off_right_kept(s, n) ==
    CHOOSE out \in
        {LET k == Min(SLen(self), n)
         IN  [part |-> Slice(self.hi - k, self.hi), rest |-> self] :
         self \in {s}} : TRUE

split_off_right(s, n) ==
    CHOOSE out \in
        {LET len == SLen(self)
             k == Min(len, n)
         IN  [part |-> Slice(self.hi - k, self.hi), rest |-> Slice(self.lo, self.hi - k)] :
         self \in {s}} : TRUE

\* The slice seen as len/2 native (little-endian) 16-bit words.
as_u16_slice(s) == [lo |-> s.lo, n |-> SLen(s) \div 2]

\* The 16-bit word whose first byte is at offset o.
u16_at(bf, o) == At(bf, o) + 256 * At(bf, o + 1)

\* Byte h (0 = first in memory) of the 16-bit word w.
u16_byte(w, h) == IF h = 0 THEN w % 256 ELSE w \div 256

-----------------------------------------------------------------------------
(* Program constants. *)

LINE_LEN == 61

SEQUENTIAL_SIZE == 2048

-----------------------------------------------------------------------------
(* reverse_complement_chunk: the buffer after the call. *)

\* *x = w for the 16-bit word x whose first byte is at offset o.
write_u16(bf, o, w) ==
    [bf EXCEPT ![o + 1] = u16_byte(w, 0), ![o + 2] = u16_byte(w, 1)]

\* Faulty variant: right16 is not walked from its end.
RECURSIVE swap_words_forward(_, _, _, _)
swap_words_forward(bf, left16, right16, i) ==
    IF i >= Min(left16.n, right16.n)
    THEN bf
    ELSE CHOOSE out \in
            {LET x == left16.lo + 2 * i
                 y == right16.lo + 2 * i
                 tmp == cpl16(u16_at(b, x))
                 bf1 == write_u16(b, x, cpl16(u16_at(b, y)))
             IN  swap_words_forward(write_u16(bf1, y, tmp), left16, right16, i + 1) :
             b \in {bf}} : TRUE

\* The loop over left16.iter_mut().zip(right16.iter_mut().rev()), from pair i.
\* (b ranges over the one buffer bf, so that bf is evaluated once per pair.)
RECURSIVE swap_words(_, _, _, _)
swap_words(bf, left16, right16, i) ==
    IF i >= Min(left16.n, right16.n)            \* zip stops at the shorter
    THEN bf
    ELSE CHOOSE out \in
            {LET x == left16.lo + 2 * i
                 y == right16.lo + 2 * (right16.n - 1 - i)
                 tmp == cpl16(u16_at(b, x))
                 bf1 == write_u16(b, x, cpl16(u16_at(b, y)))
             IN  swap_words(write_u16(bf1, y, tmp), left16, right16, i + 1) :
             b \in {bf}} : TRUE

reverse_complement_chunk(bf, left, right) ==
    LET u16_len == (SLen(left) \div 2) * 2
        l == split_off_left(left, u16_len)
        r == split_off_right(right, u16_len)
        \* the buffer after the loop over the 16-bit words
        bf16 == {swap_words(b, left16, right16, 0) :
                    b \in {bf},
                    left16 \in {as_u16_slice(l.part)},
                    right16 \in {as_u16_slice(r.part)}}
        x == l.rest.lo + 1          \* left.first_mut()
        y == r.rest.lo + 1          \* right.first_mut()
    IN  CHOOSE out \in
            {IF SLen(l.rest) > 0 /\ SLen(r.rest) > 0
             THEN [b EXCEPT ![x] = cpl8(b[y]), ![y] = cpl8(b[x])]
             ELSE b : b \in bf16} : TRUE

-----------------------------------------------------------------------------
(* reverse_complement_left_right, sequential branch: one iteration of the  *)
(* while loop.  The result holds the buffer and the two cursors after the  *)
(* iteration and the slices the iteration took on the way.                 *)

\* Faulty variant: the newline is counted in the chunk up to it.
leading_len_with_newline(trailing_len) == LINE_LEN - trailing_len

leading_len_of(trailing_len) == LINE_LEN - 1 - trailing_len

LeafIteration(bf, left, right, trailing_len) ==
    LET \* Process the chunk up to the newline in `right`.
        sa == split_off_left(left, trailing_len)
        sb == split_off_right(right, trailing_len)
        odd_right == SLen(sb.part) > SLen(sa.part)
        mid_r == split_off_left(sb.part, 1)
        bf1 == IF odd_right
               THEN [bf EXCEPT ![mid_r.part.lo + 1] = cpl8(@)]
               ELSE bf
        b1 == IF odd_right THEN mid_r.rest ELSE sb.part
        bf2 == reverse_complement_chunk(bf1, sa.part, b1)
        \* Skip the newline in `right`.
        skip_r == split_off_right(sb.rest, 1)
        \* Process the chunk up to the newline in `left`.
        leading_len == leading_len_of(trailing_len)
        sc == split_off_left(sa.rest, leading_len)
        sd == split_off_right(skip_r.rest, leading_len)
        odd_left == SLen(sc.part) > SLen(sd.part)
        mid_l == split_off_right(sc.part, 1)
        bf3 == IF odd_left
               THEN [bf2 EXCEPT ![mid_l.part.lo + 1] = cpl8(@)]
               ELSE bf2
        a2 == IF odd_left THEN mid_l.rest ELSE sc.part
        bf4 == reverse_complement_chunk(bf3, a2, sd.part)
        \* Skip the newline in `left`.
        skip_l == split_off_left(sc.rest, 1)
    IN  [buf |-> bf4, left |-> skip_l.rest, right |-> sd.rest,
         taken |-> << <<sa.part, sb.part>>, <<sc.part, sd.part>> >>,
         chunks |-> << <<sa.part, b1>>, <<a2, sd.part>> >>,
         mids |-> (IF odd_right THEN {mid_r.part} ELSE {})
                    \cup (IF odd_left THEN {mid_l.part} ELSE {}),
         skipped |-> {skip_r.part, skip_l.part},
         touched |-> {sa.part, sb.part, sc.part, sd.part}]

\* The recursive branch: where the two halves are cut.
line_count_of(len) == (len + LINE_LEN - 1) \div LINE_LEN

\* Faulty variant: the cut is the middle of `left`, not a whole number of lines.
mid_not_on_a_line(len) == len \div 2

\* Faulty variant: the cut is after every line of `left`, not half of them.
mid_of_every_line(len) == line_count_of(len) * LINE_LEN

mid_of(len) == (line_count_of(len) \div 2) * LINE_LEN

\* Faulty variant: the phase is taken of the span with its last newline.
trailing_len_with_newline(len) == (len + 1) % LINE_LEN

\* reverse_complement: the working span, its phase and its two halves.
trailing_len_of(len) == len % LINE_LEN

\* Faulty variant: the odd byte of the working span goes to `left`.
halves_of_left_longer(seq, len) ==
    split_at_mut(Slice(seq.lo, seq.lo + len), (len + 1) \div 2)

halves_of(seq, len) ==
    split_at_mut(Slice(seq.lo, seq.lo + len), len \div 2)

\* memchr: the offset, relative to the slice, of the first byte c; -1 for None.
memchr(c, bf, s) ==
    LET hits == {o \in s.lo..(s.hi - 1) : At(bf, o) = c}
    IN  IF hits = {} THEN -1
        ELSE (CHOOSE o \in hits : \A q \in hits : o <= q) - s.lo

-----------------------------------------------------------------------------
(* Input texts.  A text is written from a sequence of record descriptions: *)
(* a header line, then n bases wrapped at 60 per line.  The descriptions   *)
(* also cover the malformed texts the program may be given: no bases, no   *)
(* final newline, a header cut off by end of file, a '>' inside a line.    *)

MaxSeed == 1        \* patterned sequences are written for seeds 0..MaxSeed
MaxFree == 3        \* every sequence over FreeAlphabet of 1..MaxFree bases
MaxDepth == 4       \* engine recursion depth at which the stack is exhausted
MaxPass == 2        \* the program is run on its own output up to this pass
MaxLookups == 2     \* table look-ups applied in a row to the probe byte
MaxChunk == 7       \* patterned chunks hold 0..MaxChunk bytes each
MaxGap == 2         \* bytes before the left chunk and between the two chunks

Upper == <<b_A, b_C, b_G, b_T, b_M, b_R, b_W, b_S,
           b_Y, b_K, b_V, b_H, b_D, b_B, b_N>>

Lower == <<b_a, b_c, b_g, b_t, b_m, b_r, b_w, b_s,
           b_y, b_k, b_v, b_h, b_d, b_b, b_n>>

Alphabet == [upper |-> Upper,
             mixed |-> Upper \o Lower \o <<b_U, b_u, b_X>>,
             free |-> <<b_A, b_C, b_t, b_U, b_X>>]

RECURSIVE Pow(_, _)
Pow(base, e) == IF e = 0 THEN 1 ELSE base * Pow(base, e - 1)

\* Base k (from 0) of the sequence of kind `kind` and seed `seed`.
Base(kind, seed, k) ==
    LET al == Alphabet[kind]
    IN  IF kind = "free"
        THEN al[((seed \div Pow(Len(al), k)) % Len(al)) + 1]
        ELSE al[((k * (seed + 2) + (k \div 7) + seed) % Len(al)) + 1]

Names == << <<b_A>>, <<b_T, b_W>>, <<b_N, b_G, b_T>> >>

Rec(name, n, kind, seed) ==
    [name |-> name, n |-> n, kind |-> kind, seed |-> seed,
     nl |-> TRUE, hnl |-> TRUE, gt |-> -1]

HeaderBytes(d) == <<b_gt>> \o Names[d.name] \o (IF d.hnl THEN <<b_nl>> ELSE <<>>)

Lines(n) == (n + 59) \div 60

BodyLen(d) == IF d.n = 0 THEN 0 ELSE d.n + Lines(d.n) - (IF d.nl THEN 0 ELSE 1)

BodyBytes(d) ==
    [p \in 1..BodyLen(d) |->
        LET col == (p - 1) % 61
            k == ((p - 1) \div 61) * 60 + col
        IN  IF col = 60 \/ k >= d.n THEN b_nl
            ELSE IF k = d.gt THEN b_gt
            ELSE Base(d.kind, d.seed, k)]

RECURSIVE Render(_)
Render(ds) ==
    IF ds = <<>> THEN <<>>
    ELSE HeaderBytes(Head(ds)) \o BodyBytes(Head(ds)) \o Render(Tail(ds))

RECURSIVE OffsetOf(_, _)
OffsetOf(ds, r) ==
    IF r = 1 THEN 0
    ELSE OffsetOf(ds, r - 1) + Len(HeaderBytes(ds[r - 1])) + BodyLen(ds[r - 1])

\* Where record r of the text lies: its header line and its sequence span.
Layout(ds) ==
    [r \in 1..Len(ds) |->
        LET h == OffsetOf(ds, r)
            s == h + Len(HeaderBytes(ds[r]))
        IN  [hdr |-> Slice(h, s), seq |-> Slice(s, s + BodyLen(ds[r]))]]

WellFormedRec(d) == d.n >= 1 /\ d.nl /\ d.hnl /\ d.gt = -1

WellFormed(ds) == Len(ds) >= 1 /\ \A r \in 1..Len(ds) : WellFormedRec(ds[r])

SingleCounts == {1, 2, 3, 4, 5, 59, 60, 61, 65, 119, 120, 121, 125, 181}

BigCounts == {4035, 4080}

PairRecs == {Rec(1, 4, "upper", 0), Rec(2, 65, "mixed", 1), Rec(3, 61, "mixed", 0)}

Singles ==
    {<<Rec(1, n, kind, seed)>> :
        n \in SingleCounts, kind \in {"upper", "mixed"}, seed \in 0..MaxSeed}

Frees ==
    UNION {{<<Rec(1, n, "free", seed)>> : seed \in 0..(Pow(Len(Alphabet.free), n) - 1)} :
            n \in 1..MaxFree}

Bigs == {<<Rec(1, n, "upper", 0)>> : n \in BigCounts}

Pairs == {<<p[1], p[2]>> : p \in {q \in PairRecs \X PairRecs : q[1] # q[2]}}

Triples == {<<Rec(1, 4, "upper", 0), Rec(2, 65, "mixed", 1), Rec(3, 61, "mixed", 0)>>,
            <<Rec(3, 61, "mixed", 0), Rec(1, 4, "upper", 0), Rec(2, 65, "mixed", 1)>>}

NoBases(name) == Rec(name, 0, "upper", 0)

NoFinalNewline(name, n) == [Rec(name, n, "mixed", 0) EXCEPT !.nl = FALSE]

CutHeader(name) == [Rec(name, 0, "upper", 0) EXCEPT !.hnl = FALSE]

InnerGt(name, n, at) == [Rec(name, n, "upper", 0) EXCEPT !.gt = at]

Malformed ==
    {<<>>,
     <<NoBases(1)>>,
     <<NoBases(1), Rec(2, 4, "upper", 0)>>,
     <<Rec(1, 4, "upper", 0), NoBases(2)>>,
     <<NoFinalNewline(1, 1)>>,
     <<NoFinalNewline(1, 4)>>,
     <<NoFinalNewline(1, 60)>>,
     <<NoFinalNewline(1, 65)>>,
     <<Rec(1, 4, "upper", 0), NoFinalNewline(2, 5)>>,
     <<CutHeader(1)>>,
     <<Rec(1, 4, "upper", 0), CutHeader(2)>>,
     <<InnerGt(1, 5, 2)>>,
     <<InnerGt(1, 65, 30)>>,
     <<InnerGt(1, 65, 62), Rec(2, 4, "upper", 0)>>}

Texts == Singles \cup Frees \cup Bigs \cup Pairs \cup Triples \cup Malformed

-----------------------------------------------------------------------------
(* Tasks. *)

Empty == Slice(0, 0)

Frame(kind, pc, left, right, trailing_len, pending, depth) ==
    [kind |-> kind, pc |-> pc, left |-> left, right |-> right,
     trailing_len |-> trailing_len, pending |-> pending, depth |-> depth]

Root == <<>>

Parent(id) == SubSeq(id, 1, Len(id) - 1)

\* main: split_and_reverse(&mut data, tables)
RootTasks(bf) == Root :> Frame("split", "call", Slice(0, Len(bf)), Empty, 0, 0, 0)

\* The task map after call `id` has returned to its caller.
Returned(ts, id) ==
    LET others == [k \in DOMAIN ts \ {id} |-> ts[k]]
    IN  IF id = Root THEN others
        ELSE [others EXCEPT ![Parent(id)].pending = @ - 1]

\* rayon::join(a, b) in call `id`: the caller waits, both closures are live.
Joined(ts, id, a, b) ==
    [k \in DOMAIN ts \cup {Append(id, 0), Append(id, 1)} |->
        IF k = id THEN [ts[id] EXCEPT !.pc = "join", !.pending = 2]
        ELSE IF k = Append(id, 0) THEN a
        ELSE IF k = Append(id, 1) THEN b
        ELSE ts[k]]

Threshold(n) == [fin |-> TRUE, n |-> n]

Unbounded == [fin |-> FALSE, n |-> 0]

\* len <= SEQUENTIAL_SIZE, for the threshold the engine runs with
IsSequential(len, th) == (~th.fin) \/ len <= th.n

NoAccess == [who |-> Root, touched |-> {}]

NoProbe == [c |-> 0, v |-> 0, n |-> 0]

\* The generator is not part of the run.
NoFasta == <<>>

\* No iteration of a leaf loop was the last step.
NoIteration == [who |-> Root, taken |-> <<>>, chunks |-> <<>>, mids |-> {}, skipped |-> {}]

NoLog == [last |-> NoIteration, consumed |-> {}, twice |-> FALSE]

\* The slices one iteration of the leaf loop has taken off the cursors for
\* good, each with what was done to it: the two pairs of chunks swapped, the
\* surplus bytes complemented alone, the bytes skipped.
ConsumedBy(it) ==
    {[s |-> it.chunks[k][h], how |-> "swap"] : k \in 1..2, h \in 1..2}
      \cup {[s |-> m, how |-> "mid"] : m \in it.mids}
      \cup {[s |-> n, how |-> "skip"] : n \in it.skipped}

\* Some byte is in two of the entries cs, or in one of them and one of old.
Overlapping(cs, old) ==
    \E c \in cs : \E d \in cs \cup old :
        /\ c # d
        /\ c.s.hi > c.s.lo /\ d.s.hi > d.s.lo
        /\ c.s.hi > d.s.lo /\ d.s.hi > c.s.lo

\* The log after iteration `it` of the leaf loop of call `id`.
Logged(lg, id, it) ==
    LET cs == {c \in ConsumedBy(it) : c.s.hi > c.s.lo}
    IN  [last |-> [who |-> id, taken |-> it.taken, chunks |-> it.chunks,
                   mids |-> it.mids, skipped |-> it.skipped],
         consumed |-> lg.consumed \cup cs,
         twice |-> lg.twice \/ Overlapping(cs, lg.consumed)]

-----------------------------------------------------------------------------
(* The state after construction: the text is read, the tables are built,   *)
(* and main is about to call split_and_reverse on the whole buffer.        *)

Started(ds, text, th) ==
    /\ desc = ds
    /\ orig = text
    /\ input = text
    /\ buf = text
    /\ tasks = RootTasks(text)
    /\ table8 = new_table8
    /\ status = "running"
    /\ pass = 1
    /\ threshold = th
    /\ acc = NoAccess
    /\ probe = NoProbe
    /\ log = NoLog
    /\ fasta = NoFasta

Init == \E ds \in Texts : \E text \in {Render(ds)} : Started(ds, text, Threshold(SEQUENTIAL_SIZE))

-----------------------------------------------------------------------------
(* split_and_reverse *)

\* Faulty variant: the header's newline is left in the rest.
after_newline_kept(data, i) == Slice(data.lo + i, data.hi)

\* &mut data[i + 1..]
after_newline(data, i) == Slice(data.lo + i + 1, data.hi)

split_and_reverse(id) ==
    LET f == tasks[id]
        data == f.left
        i == memchr(b_nl, buf, data)
        rest == after_newline(data, i)
        j == memchr(b_gt, buf, rest)
        head == split_at_mut(rest, j).head
        tail == split_at_mut(rest, j).tail
        read == IF i = -1 \/ j = -1 THEN data
                ELSE Slice(data.lo, rest.lo + j + 1)
    IN  /\ status = "running"
        /\ f.kind = "split" /\ f.pc = "call"
        /\ IF i = -1
           THEN /\ tasks' = Returned(tasks, id)
                /\ status' = IF id = Root THEN "done" ELSE status
           ELSE /\ tasks' =
                     IF j >= 0
                     THEN Joined(tasks, id,
                                 Frame("rc", "call", head, Empty, 0, 0, 0),
                                 Frame("split", "call", tail, Empty, 0, 0, 0))
                     ELSE [tasks EXCEPT ![id] = Frame("rc", "call", rest, Empty, 0, 0, 0)]
                /\ status' = status
        /\ acc' = [who |-> id, touched |-> {read} \ {Empty}]
        /\ log' = [log EXCEPT !.last = NoIteration]
        /\ UNCHANGED <<desc, orig, input, buf, pass, threshold, table8, probe, fasta>>

(* reverse_complement *)

\* seq.len() - 1 on an empty slice: the subtraction overflows (a panic in a
\* debug build), and in a release build &mut seq[..usize::MAX] is out of range.
reverse_complement_panics(seq) == SLen(seq) = 0

reverse_complement(id) ==
    LET f == tasks[id]
        seq == f.left
        len == SLen(seq) - 1
        h == halves_of(seq, len)
    IN  /\ status = "running"
        /\ f.kind = "rc" /\ f.pc = "call"
        /\ IF reverse_complement_panics(seq)
           THEN /\ status' = "panic"
                /\ tasks' = tasks
           ELSE /\ status' = status
                /\ tasks' = [tasks EXCEPT ![id] =
                                Frame("rclr", "call", h.head, h.tail,
                                      trailing_len_of(len), 0, 0)]
        /\ acc' = [who |-> id, touched |-> {}]
        /\ log' = [log EXCEPT !.last = NoIteration]
        /\ UNCHANGED <<desc, orig, input, buf, pass, threshold, table8, probe, fasta>>

(* reverse_complement_left_right *)

\* Faulty variant: the recursive calls pair the parts of `left` and `right`
\* that lie on the same side (first with first, last with last).
reverse_complement_left_right_same_side(id) ==
    LET f == tasks[id]
        len == SLen(f.left)
        mid == mid_of(len)
        l == split_off_left(f.left, mid)
        r == split_off_right(f.right, mid)
    IN  /\ status = "running"
        /\ f.kind = "rclr" /\ f.pc = "call"
        /\ IsSequential(len, threshold) \/ f.depth < MaxDepth
        /\ tasks' =
             IF IsSequential(len, threshold)
             THEN [tasks EXCEPT ![id].pc = "loop"]
             ELSE Joined(tasks, id,
                         Frame("rclr", "call", l.part, r.rest, f.trailing_len, 0, f.depth + 1),
                         Frame("rclr", "call", l.rest, r.part, f.trailing_len, 0, f.depth + 1))
        /\ acc' = [who |-> id, touched |-> {}]
        /\ log' = [log EXCEPT !.last = NoIteration]
        /\ UNCHANGED <<desc, orig, input, buf, status, pass, threshold, table8, probe, fasta>>

\* Entry: the test len <= SEQUENTIAL_SIZE, and the recursive branch.
reverse_complement_left_right(id) ==
    LET f == tasks[id]
        len == SLen(f.left)
        mid == mid_of(len)
        l == split_off_left(f.left, mid)
        r == split_off_right(f.right, mid)
    IN  /\ status = "running"
        /\ f.kind = "rclr" /\ f.pc = "call"
        /\ IsSequential(len, threshold) \/ f.depth < MaxDepth
        /\ tasks' =
             IF IsSequential(len, threshold)
             THEN [tasks EXCEPT ![id].pc = "loop"]
             ELSE Joined(tasks, id,
                         Frame("rclr", "call", l.rest, r.rest, f.trailing_len, 0, f.depth + 1),
                         Frame("rclr", "call", l.part, r.part, f.trailing_len, 0, f.depth + 1))
        /\ acc' = [who |-> id, touched |-> {}]
        /\ log' = [log EXCEPT !.last = NoIteration]
        /\ UNCHANGED <<desc, orig, input, buf, status, pass, threshold, table8, probe, fasta>>

\* The recursion has used up the stack: the process is killed.
StackOverflow(id) ==
    LET f == tasks[id]
    IN  /\ status = "running"
        /\ f.kind = "rclr" /\ f.pc = "call"
        /\ ~IsSequential(SLen(f.left), threshold)
        /\ f.depth >= MaxDepth
        /\ status' = "overflow"
        /\ acc' = [who |-> id, touched |-> {}]
        /\ log' = [log EXCEPT !.last = NoIteration]
        /\ UNCHANGED <<desc, orig, input, buf, tasks, pass, threshold, table8, probe, fasta>>

\* One iteration of the while loop.
LeafStep(id) ==
    LET f == tasks[id]
    IN  /\ status = "running"
        /\ f.kind = "rclr" /\ f.pc = "loop"
        /\ SLen(f.left) > 0 \/ SLen(f.right) > 0
        /\ \E it \in {LeafIteration(buf, f.left, f.right, f.trailing_len)} :
             /\ buf' = it.buf
             /\ tasks' = [tasks EXCEPT ![id].left = it.left, ![id].right = it.right]
             /\ acc' = [who |-> id, touched |-> {s \in it.touched : SLen(s) > 0}]
             /\ log' = Logged(log, id, it)
        /\ UNCHANGED <<desc, orig, input, status, pass, threshold, table8, probe, fasta>>

\* The loop test fails: the call returns.
LeafReturn(id) ==
    LET f == tasks[id]
    IN  /\ status = "running"
        /\ f.kind = "rclr" /\ f.pc = "loop"
        /\ SLen(f.left) = 0 /\ SLen(f.right) = 0
        /\ tasks' = Returned(tasks, id)
        /\ status' = IF id = Root THEN "done" ELSE status
        /\ acc' = [who |-> id, touched |-> {}]
        /\ log' = [log EXCEPT !.last = NoIteration]
        /\ UNCHANGED <<desc, orig, input, buf, pass, threshold, table8, probe, fasta>>

\* rayon::join returns once both closures have returned; so does the caller.
Join(id) ==
    LET f == tasks[id]
    IN  /\ status = "running"
        /\ f.pc = "join" /\ f.pending = 0
        /\ tasks' = Returned(tasks, id)
        /\ status' = IF id = Root THEN "done" ELSE status
        /\ acc' = [who |-> id, touched |-> {}]
        /\ log' = [log EXCEPT !.last = NoIteration]
        /\ UNCHANGED <<desc, orig, input, buf, pass, threshold, table8, probe, fasta>>

\* main run once more, on the text the last run wrote.
Reapply ==
    /\ status = "done"
    /\ pass < MaxPass
    /\ orig' = input
    /\ input' = buf
    /\ tasks' = RootTasks(buf)
    /\ status' = "running"
    /\ pass' = pass + 1
    /\ acc' = NoAccess
    /\ log' = NoLog
    /\ UNCHANGED <<desc, buf, threshold, table8, probe, fasta>>

Next ==
    \/ \E id \in DOMAIN tasks : split_and_reverse(id)
    \/ \E id \in DOMAIN tasks : reverse_complement(id)
    \/ \E id \in DOMAIN tasks : reverse_complement_left_right(id)
    \/ \E id \in DOMAIN tasks : LeafStep(id)
    \/ \E id \in DOMAIN tasks : LeafReturn(id)
    \/ \E id \in DOMAIN tasks : Join(id)
    \/ Reapply

Spec == Init /\ [][Next]_vars

\* The program keeps running while some call can take a step: rayon's workers
\* run every closure given to join, and no call waits for anything but a join.
\* (One of the two long texts is enough here: both take the recursive branch.)
LiveTexts == (Texts \ Bigs) \cup {<<Rec(1, 4035, "upper", 0)>>}

InitLive ==
    \E ds \in LiveTexts : \E text \in {Render(ds)} :
        Started(ds, text, Threshold(SEQUENTIAL_SIZE))

SpecLive == InitLive /\ [][Next]_vars /\ WF_vars(Next)

-----------------------------------------------------------------------------
(* The engine run with other values of SEQUENTIAL_SIZE: 1 (recurse whenever *)
(* `left` holds more than one byte), one line less one byte, one line, the  *)
(* shipped value, and no threshold at all (never recurse).                  *)

TerminatingThresholds == {Threshold(LINE_LEN), Threshold(SEQUENTIAL_SIZE), Unbounded}

ShortThresholds == {Threshold(1), Threshold(LINE_LEN - 1)}

ThresholdCounts == {1, 2, 3, 4, 65, 121, 181, 400}

ShortCounts == {1, 2, 3, 4, 65, 121}

ThresholdTexts(counts) ==
    {<<Rec(1, n, "mixed", seed)>> : n \in counts, seed \in 0..MaxSeed}

InitThreshold ==
    \/ \E ds \in ThresholdTexts(ThresholdCounts) : \E th \in TerminatingThresholds :
         \E text \in {Render(ds)} : Started(ds, text, th)
    \/ \E ds \in ThresholdTexts(ShortCounts) : \E th \in ShortThresholds :
         \E text \in {Render(ds)} : Started(ds, text, th)
    \/ \E ds \in Bigs : \E th \in {Threshold(SEQUENTIAL_SIZE), Unbounded} :
         \E text \in {Render(ds)} : Started(ds, text, th)

NextThreshold ==
    \/ Next
    \/ \E id \in DOMAIN tasks : StackOverflow(id)

SpecThreshold == InitThreshold /\ [][NextThreshold]_vars

-----------------------------------------------------------------------------
(* The 8-bit table on its own: a byte is looked up, then the result, ...   *)

InitTables ==
    /\ probe \in {[c |-> c, v |-> c, n |-> 0] : c \in 0..255}
    /\ table8 = new_table8
    /\ status = "tables"
    /\ desc = <<>> /\ orig = <<>> /\ input = <<>> /\ buf = <<>>
    /\ tasks = <<>>
    /\ pass = 1
    /\ threshold = Threshold(SEQUENTIAL_SIZE)
    /\ acc = NoAccess
    /\ log = NoLog
    /\ fasta = NoFasta

\* tables.cpl8(v)
Lookup ==
    /\ status = "tables"
    /\ probe.n < MaxLookups
    /\ probe' = [probe EXCEPT !.v = cpl8(@), !.n = @ + 1]
    /\ UNCHANGED <<desc, orig, input, buf, tasks, status, pass, threshold, acc, table8, log, fasta>>

SpecTables == InitTables /\ [][Lookup]_vars

-----------------------------------------------------------------------------
(* reverse_complement_chunk on its own: two chunks of n bytes each in a     *)
(* buffer, at even and odd offsets, next to each other or apart; and the    *)
(* 16-bit table on its own: a word is looked up.                            *)

\* The bytes the probed words are made of: all of them, so that every one
\* of the 65536 entries of table16 is looked up.
ProbeBytes == 0..255

\* Two patterned chunks of n bytes: `lead` bytes, left, `gap` bytes, right.
ChunkText(n, seed, lead, gap) ==
    [p \in 1..(lead + n + gap + n) |->
        IF p <= lead \/ (p > lead + n /\ p <= lead + n + gap) THEN b_nl
        ELSE Base("mixed", seed, p)]

\* Every pair of chunks of n bytes over the free alphabet, side by side.
FreeChunkTexts(n) ==
    {[p \in 1..(2 * n) |-> Base("free", seed, p - 1)] :
        seed \in 0..(Pow(Len(Alphabet.free), 2 * n) - 1)}

ChunkStarted(text, left, right) ==
    /\ desc = <<>>
    /\ orig = text
    /\ input = text
    /\ buf = text
    /\ tasks = (Root :> Frame("chunk", "call", left, right, 0, 0, 0))
    /\ table8 = new_table8
    /\ status = "chunk"
    /\ pass = 1
    /\ threshold = Threshold(SEQUENTIAL_SIZE)
    /\ acc = NoAccess
    /\ probe = NoProbe
    /\ log = NoLog
    /\ fasta = NoFasta

InitChunk ==
    \/ \E n \in 0..MaxChunk : \E seed \in 0..MaxSeed :
       \E lead \in 0..MaxGap : \E gap \in 0..MaxGap :
         ChunkStarted(ChunkText(n, seed, lead, gap),
                      Slice(lead, lead + n),
                      Slice(lead + n + gap, lead + n + gap + n))
    \/ \E n \in 1..(MaxFree - 1) : \E text \in FreeChunkTexts(n) :
         ChunkStarted(text, Slice(0, n), Slice(n, 2 * n))
    \/ /\ probe \in {[c |-> b0 + 256 * b1, v |-> b0 + 256 * b1, n |-> 0] :
                        b0 \in ProbeBytes, b1 \in ProbeBytes}
       /\ table8 = new_table8
       /\ status = "tables"
       /\ desc = <<>> /\ orig = <<>> /\ input = <<>> /\ buf = <<>>
       /\ tasks = <<>>
       /\ pass = 1
       /\ threshold = Threshold(SEQUENTIAL_SIZE)
       /\ acc = NoAccess
       /\ log = NoLog
       /\ fasta = NoFasta

\* reverse_complement_chunk(left, right, tables)
CallChunk ==
    /\ status = "chunk"
    /\ tasks[Root].pc = "call"
    /\ buf' = reverse_complement_chunk(buf, tasks[Root].left, tasks[Root].right)
    /\ tasks' = [tasks EXCEPT ![Root].pc = "return"]
    /\ acc' = [who |-> Root,
               touched |-> {s \in {tasks[Root].left, tasks[Root].right} : SLen(s) > 0}]
    /\ UNCHANGED <<desc, orig, input, status, pass, threshold, table8, probe, log, fasta>>

\* tables.cpl16(c), once
Lookup16 ==
    /\ status = "tables"
    /\ probe.n = 0
    /\ probe' = [probe EXCEPT !.v = cpl16(@), !.n = 1]
    /\ UNCHANGED <<desc, orig, input, buf, tasks, status, pass, threshold, acc, table8, log, fasta>>

NextChunk ==
    \/ CallChunk
    \/ Lookup16

SpecChunk == InitChunk /\ [][NextChunk]_vars

-----------------------------------------------------------------------------
(* The same code run without concurrency: rayon::join(a, b) as a, then b.  *)

RECURSIVE run_leaf(_, _, _, _)
run_leaf(bf, left, right, trailing_len) ==
    IF SLen(left) = 0 /\ SLen(right) = 0 THEN bf
    ELSE LET it == LeafIteration(bf, left, right, trailing_len)
         IN  run_leaf(it.buf, it.left, it.right, trailing_len)

RECURSIVE run_left_right(_, _, _, _, _)
run_left_right(bf, left, right, trailing_len, th) ==
    IF IsSequential(SLen(left), th)
    THEN run_leaf(bf, left, right, trailing_len)
    ELSE LET mid == mid_of(SLen(left))
             l == split_off_left(left, mid)
             r == split_off_right(right, mid)
         IN  run_left_right(run_left_right(bf, l.rest, r.rest, trailing_len, th),
                            l.part, r.part, trailing_len, th)

\* reverse_complement on span seq of bf; an empty span leaves the run failed.
run_reverse_complement(bf, seq, th) ==
    IF reverse_complement_panics(seq) THEN bf
    ELSE LET len == SLen(seq) - 1
             h == halves_of(seq, len)
         IN  run_left_right(bf, h.head, h.tail, trailing_len_of(len), th)

RECURSIVE run_split_and_reverse(_, _, _)
run_split_and_reverse(bf, data, th) ==
    LET i == memchr(b_nl, bf, data)
        rest == after_newline(data, i)
        j == memchr(b_gt, bf, rest)
        cut == split_at_mut(rest, j)
    IN  IF i = -1 THEN bf
        ELSE IF j = -1 THEN run_reverse_complement(bf, rest, th)
        ELSE run_split_and_reverse(run_reverse_complement(bf, cut.head, th), cut.tail, th)

\* The text main writes for text bf, run with threshold th on one thread.
run_main(bf, th) == run_split_and_reverse(bf, Slice(0, Len(bf)), th)

\* The bytes of slice s of bf, as a buffer of their own.
Bytes(bf, s) == SubSeq(bf, s.lo + 1, s.hi)

\* The bases of span s: its bytes with the newlines removed.
Strip(bf, s) == SelectSeq(Bytes(bf, s), LAMBDA c : c # b_nl)

\* The complement of the reverse of the bases sq.
Complemented(sq) == [k \in 1..Len(sq) |-> cpl8(sq[Len(sq) + 1 - k])]

-----------------------------------------------------------------------------
(* Properties. *)

Finished == status = "done"

AllWellFormed == WellFormed(desc)

\* C1: when a run on a well-formed text has finished, the bases of every
\* sequence span (its bytes without the newlines) are the 8-bit-table
\* complement of the reverse of the bases the run started from: output base k
\* is cpl8 of input base (total_bases - 1 - k).
C1_ReverseComplement ==
    (Finished /\ AllWellFormed) =>
        \A r \in 1..Len(desc) :
            \E span \in {Layout(desc)[r].seq} :
                Strip(buf, span) = Complemented(Strip(input, span))

\* A finished first run on one record of 65 bases (a line of 60 and one of 5).
C1_Witness ==
    /\ Finished /\ pass = 1
    /\ desc = <<Rec(1, 65, "mixed", 0)>>
    /\ buf # input

\* The offsets, relative to span s, of the newline bytes of bf in s.
NewlineOffsets(bf, s) == {i \in 0..(SLen(s) - 1) : At(bf, s.lo + i) = b_nl}

\* C2: when a run on a well-formed text has finished, every sequence span has
\* its newlines at the offsets they had at the start and nowhere else: each
\* line but the last holds 60 data bytes, the last holds
\* ((total_bases - 1) mod 60) + 1, and the number of lines is unchanged.
C2_NewlinesStay ==
    (Finished /\ AllWellFormed) =>
        \A r \in 1..Len(desc) :
            \E span \in {Layout(desc)[r].seq} :
            \E nls \in {NewlineOffsets(buf, span)} :
                LET lines == Cardinality(nls)
                    total_bases == SLen(span) - lines
                IN  /\ nls = NewlineOffsets(input, span)
                    /\ nls = {i \in 0..(SLen(span) - 1) :
                                i % 61 = 60 \/ i = SLen(span) - 1}
                    /\ SLen(span) - 1 - 61 * (lines - 1) = ((total_bases - 1) % 60) + 1

\* A finished first run on 65 bases whose bases did move.
C2_Witness ==
    /\ Finished /\ pass = 1
    /\ desc = <<Rec(1, 65, "upper", 1)>>
    /\ NewlineOffsets(buf, Layout(desc)[1].seq) = {60, 66}
    /\ buf # input

\* reverse_complement applied to the span alone: the span is the whole buffer.
reverse_complement_alone(seq_bytes) ==
    run_reverse_complement(seq_bytes, Slice(0, Len(seq_bytes)), threshold)

\* C3: when a run on a text of well-formed records has finished, every header
\* line is byte for byte what it was, the records are where they were, and
\* every sequence span holds what reverse_complement makes of that span
\* alone, whatever the other records and their order.
C3_RecordsIndependent ==
    (Finished /\ AllWellFormed) =>
        /\ Len(buf) = Len(input)
        /\ \A r \in 1..Len(desc) :
            \E rec \in {Layout(desc)[r]} :
                /\ Bytes(buf, rec.hdr) = Bytes(input, rec.hdr)
                /\ Bytes(buf, rec.seq) = reverse_complement_alone(Bytes(input, rec.seq))

\* A finished run on two different records, the one of 65 bases first.
C3_Witness ==
    /\ Finished /\ pass = 1
    /\ desc = <<Rec(2, 65, "mixed", 1), Rec(1, 4, "upper", 0)>>
    /\ buf # input

\* The text an always-sequential engine writes for the text of this run.
always_sequential == run_main(input, Unbounded)

\* C4 as stated: whatever the threshold, 1 included, the run on a well-formed
\* text completes and writes the text the always-sequential engine writes.
C4_AnyThreshold ==
    AllWellFormed =>
        /\ status # "overflow"
        /\ Finished => buf = always_sequential

\* C4 amended: with a threshold of at least LINE_LEN (61, the shipped 2048,
\* no threshold) the run on a well-formed text completes and writes the text
\* the always-sequential engine writes.
C4_ThresholdFromLineLen ==
    (AllWellFormed /\ (threshold.fin => threshold.n >= LINE_LEN)) =>
        /\ status # "overflow"
        /\ Finished => buf = always_sequential

\* A finished run with threshold 61 on 400 bases: `left` holds 203 bytes, so
\* the engine has recursed.
C4_Witness ==
    /\ Finished /\ pass = 1
    /\ threshold = Threshold(LINE_LEN)
    /\ desc = <<Rec(1, 400, "mixed", 0)>>
    /\ buf # input

\* A call that can still touch the buffer: it is not waiting in a join.
Live(id) == tasks[id].pc # "join"

\* The byte ranges call frame f can reach.
Footprint(f) == {s \in {f.left, f.right} : SLen(s) > 0}

Disjoint(s, t) == s.hi <= t.lo \/ t.hi <= s.lo

IsPrefix(p, q) == Len(p) <= Len(q) /\ SubSeq(q, 1, Len(p)) = p

\* C5: in every state of every interleaving, the ranges any two live calls can
\* reach are disjoint (so are the two halves of one call); every live splitter
\* holds only bytes after the spans held by the live engine calls; the bytes
\* the last step touched are in no range of a call other than the one that
\* took the step (or the calls it has just forked); and the text written at
\* the end is the one a single thread writes.
C5_DisjointRanges ==
    /\ \A i \in DOMAIN tasks : \A j \in DOMAIN tasks :
         \/ i = j /\ Disjoint(tasks[i].left, tasks[i].right)
         \/ i # j /\ (Live(i) /\ Live(j) =>
                        \A s \in Footprint(tasks[i]) : \A t \in Footprint(tasks[j]) :
                            Disjoint(s, t))
    /\ \A i \in DOMAIN tasks : \A j \in DOMAIN tasks :
         (Live(i) /\ tasks[i].kind = "split" /\ Live(j) /\ tasks[j].kind # "split") =>
            \A t \in Footprint(tasks[j]) : t.hi <= tasks[i].left.lo
    /\ \A j \in DOMAIN tasks :
         (Live(j) /\ ~IsPrefix(acc.who, j)) =>
            \A s \in Footprint(tasks[j]) : \A t \in acc.touched : Disjoint(s, t)
    /\ Finished => buf = run_main(input, threshold)

\* Both halves of a fork of the engine are in their loops, and the last step
\* was an iteration that swapped bytes.
C5_Witness ==
    /\ status = "running"
    /\ acc.touched # {}
    /\ \E i \in DOMAIN tasks : \E j \in DOMAIN tasks :
         /\ i # j
         /\ tasks[i].kind = "rclr" /\ tasks[i].pc = "loop" /\ SLen(tasks[i].left) > 0
         /\ tasks[j].kind = "rclr" /\ tasks[j].pc = "loop" /\ SLen(tasks[j].left) > 0
         /\ Parent(i) = Parent(j)

\* Every record has a complete header line and a newline after its last line.
AllTerminated ==
    \A r \in 1..Len(desc) : desc[r].hnl /\ desc[r].nl

\* Record r of the finished run: the header is what it was and the bases are
\* the complement of the reverse of the bases it started from.
RecordDone(r) ==
    \E rec \in {Layout(desc)[r]} :
        /\ Bytes(buf, rec.hdr) = Bytes(input, rec.hdr)
        /\ Strip(buf, rec.seq) = Complemented(Strip(input, rec.seq))

\* C6: a text in which some header line is followed at once by the end of
\* the buffer or by another header is run without failure: the empty body
\* stays empty, its header is unchanged, the other records are transformed.
C6_EmptyRecordIsNoOp ==
    (/\ AllTerminated
     /\ \A r \in 1..Len(desc) : desc[r].gt = -1
     /\ \E r \in 1..Len(desc) : desc[r].n = 0) =>
        /\ status # "panic"
        /\ Finished => (Len(buf) = Len(input) /\ \A r \in 1..Len(desc) : RecordDone(r))

\* C7: a text whose last sequence line has no newline after it is run
\* without failure, and every base of the last record, the last byte of the
\* buffer included, is the complement of its mirror base.
C7_NoFinalNewline ==
    (/\ Len(desc) >= 1
     /\ \A r \in 1..Len(desc) :
          /\ desc[r].hnl /\ desc[r].gt = -1 /\ desc[r].n >= 1
          /\ desc[r].nl = (r # Len(desc))) =>
        /\ status # "panic"
        /\ Finished => RecordDone(Len(desc))

\* C10: a '>' inside a sequence line does not end the span: the run treats it
\* as one more byte of the sequence, moved by the reversal and mapped to
\* itself, and the records are those that start with '>' at a line start.
C10_GtInsideLine ==
    (/\ AllTerminated
     /\ \A r \in 1..Len(desc) : desc[r].n >= 1
     /\ \E r \in 1..Len(desc) : desc[r].gt >= 0) =>
        /\ status # "panic"
        /\ Finished => \A r \in 1..Len(desc) : RecordDone(r)

UpperCodes == {b_A, b_C, b_G, b_T, b_M, b_R, b_W, b_S, b_Y, b_K, b_V, b_H, b_D, b_B, b_N}

LowerCodes == {b_a, b_c, b_g, b_t, b_m, b_r, b_w, b_s, b_y, b_k, b_v, b_h, b_d, b_b, b_n}

IupacCodes == UpperCodes \cup LowerCodes \cup {b_U, b_u}

\* Every base of every sequence span of text bf is in codes.
BasesIn(bf, codes) ==
    \A r \in 1..Len(desc) :
        \A o \in Layout(desc)[r].seq.lo..(Layout(desc)[r].seq.hi - 1) :
            At(bf, o) = b_nl \/ At(bf, o) \in codes

\* C8 as stated: the program run on the text it wrote for a well-formed text
\* of IUPAC codes, of either case and U included, writes that text again.
C8_Involution ==
    (Finished /\ pass >= 2 /\ AllWellFormed /\ BasesIn(orig, IupacCodes)) =>
        buf = orig

\* C8 amended: the program run on the text it wrote for a well-formed text of
\* upper-case IUPAC codes other than U writes that text again.
C8_InvolutionUpperCase ==
    (Finished /\ pass >= 2 /\ AllWellFormed /\ BasesIn(orig, UpperCodes)) =>
        buf = orig

\* The second run on 65 upper-case bases has finished.
C8_Witness ==
    /\ Finished /\ pass = 2
    /\ desc = <<Rec(1, 65, "upper", 0)>>
    /\ input # orig
    /\ buf = orig

\* C9 as stated: for every byte with an entry of its own in the 8-bit table
\* (upper case, lower case, U) two look-ups in a row give the byte back; and
\* W, S and N are their own complement.
C9_Pairing ==
    /\ (probe.n = 2 /\ probe.c \in IupacCodes) => probe.v = probe.c
    /\ (probe.n = 1 /\ probe.c \in {b_W, b_S, b_N}) => probe.v = probe.c

\* C9 amended: for every upper-case code other than U two look-ups in a row
\* give the byte back; and W, S and N are their own complement.
C9_PairingUpperCase ==
    /\ (probe.n = 2 /\ probe.c \in UpperCodes) => probe.v = probe.c
    /\ (probe.n = 1 /\ probe.c \in {b_W, b_S, b_N}) => probe.v = probe.c

\* H has been looked up and then its complement D: the result is H again.
C9_Witness == probe.c = b_H /\ probe.n = 2 /\ probe.v = b_H

-----------------------------------------------------------------------------
(* The recursive branch. *)

\* The calls made by call `id` that are live.
Children(id) == {k \in {Append(id, 0), Append(id, 1)} : k \in DOMAIN tasks}

\* The four parts the recursive branch cuts the halves of frame f into:
\* `left` at mid from its start, `right` at mid from its end.
Parts(f) ==
    LET mid == mid_of(SLen(f.left))
    IN  [left_lo |-> Slice(f.left.lo, f.left.lo + mid),
         left_hi |-> Slice(f.left.lo + mid, f.left.hi),
         right_lo |-> Slice(f.right.lo, f.right.hi - mid),
         right_hi |-> Slice(f.right.hi - mid, f.right.hi)]

\* The (left, right) arguments of the calls of `id` that have not yet started.
Arguments(id) ==
    {<<tasks[k].left, tasks[k].right>> : k \in {c \in Children(id) : tasks[c].pc = "call"}}

\* Every live call but the outermost has its caller waiting in a join for it,
\* the caller counts the calls it still waits for, and a recursive call is
\* given its caller's trailing_len.
JoinedBeforeReturn ==
    /\ \A id \in DOMAIN tasks :
         id # Root => (Parent(id) \in DOMAIN tasks /\ tasks[Parent(id)].pc = "join")
    /\ \A id \in DOMAIN tasks :
         /\ tasks[id].pc = "join" => tasks[id].pending = Cardinality(Children(id))
         /\ tasks[id].pc # "join" => Children(id) = {}
         /\ (tasks[id].pc = "join" /\ tasks[id].kind = "rclr") =>
               \A k \in Children(id) :
                   /\ tasks[k].kind = "rclr"
                   /\ tasks[k].trailing_len = tasks[id].trailing_len

\* The engine calls that have forked and whose two calls have not yet started.
JustForked ==
    {id \in DOMAIN tasks :
        /\ tasks[id].kind = "rclr" /\ tasks[id].pc = "join"
        /\ Cardinality(Children(id)) = 2
        /\ \A k \in Children(id) : tasks[k].pc = "call"}

\* C11 as stated: in the parallel step the two recursive calls are made on
\* (left_lo, right_lo) and on (left_hi, right_hi), both with the unchanged
\* trailing_len, and both are joined before the call returns.
C11_SameSidePairs ==
    /\ JoinedBeforeReturn
    /\ \A id \in JustForked :
         \E p \in {Parts(tasks[id])} :
             Arguments(id) = {<<p.left_lo, p.right_lo>>, <<p.left_hi, p.right_hi>>}

\* C11 amended: in the parallel step the two recursive calls are made on
\* (left_hi, right_lo), the two parts next to the middle of the span, and on
\* (left_lo, right_hi), the two parts at its ends, both with the unchanged
\* trailing_len, and both are joined before the call returns.
C11_MirrorPairs ==
    /\ JoinedBeforeReturn
    /\ \A id \in JustForked :
         \E p \in {Parts(tasks[id])} :
             Arguments(id) = {<<p.left_hi, p.right_lo>>, <<p.left_lo, p.right_hi>>}

\* The engine has forked on the 2051-byte left half of 4035 bases: mid is
\* 17 lines, and neither call has started.
C11_Witness ==
    /\ desc = <<Rec(1, 4035, "upper", 0)>>
    /\ \E id \in JustForked :
         /\ SLen(tasks[id].left) = 2051
         /\ mid_of(SLen(tasks[id].left)) = 17 * LINE_LEN
         /\ SLen(tasks[Append(id, 1)].left) = 17 * LINE_LEN

-----------------------------------------------------------------------------
(* The chunk swap. *)

\* The byte-wise reference: byte i of `left` and byte n-1-i of `right` are
\* exchanged, each becoming the 8-bit complement of the other; every other
\* byte of the buffer stays.
chunk_reference(bf, left, right) ==
    LET n == SLen(left)
    IN  [p \in DOMAIN bf |->
            LET o == p - 1
            IN  IF left.lo <= o /\ o < left.hi
                THEN cpl8(At(bf, right.lo + (n - 1 - (o - left.lo))))
                ELSE IF right.lo <= o /\ o < right.hi
                THEN cpl8(At(bf, left.lo + (n - 1 - (o - right.lo))))
                ELSE bf[p]]

ChunkReturned == status = "chunk" /\ tasks[Root].pc = "return"

\* C12: after reverse_complement_chunk on two chunks of n bytes each, n even
\* or odd, left[i] is cpl8 of the old right[n-1-i] and right[n-1-i] is cpl8 of
\* the old left[i] for every i < n, and no other byte has changed (the buffer
\* is the byte-wise reference's); and the 16-bit table entry of the word made
\* of the bytes (b0, b1) is the word made of (cpl8(b1), cpl8(b0)).
C12_ChunkIsByteWise ==
    /\ ChunkReturned =>
         \E left \in {tasks[Root].left} : \E right \in {tasks[Root].right} :
             /\ \A i \in 0..(SLen(left) - 1) :
                  /\ At(buf, left.lo + i) = cpl8(At(input, right.hi - 1 - i))
                  /\ At(buf, right.hi - 1 - i) = cpl8(At(input, left.lo + i))
             /\ buf = chunk_reference(input, left, right)
    /\ (status = "tables" /\ probe.n = 1) =>
         /\ u16_byte(probe.v, 0) = cpl8(u16_byte(probe.c, 1))
         /\ u16_byte(probe.v, 1) = cpl8(u16_byte(probe.c, 0))

\* Two chunks of 7 bytes, the left one at an odd offset and one byte apart,
\* have been swapped: three words each and one unpaired byte each.
C12_Witness ==
    /\ ChunkReturned
    /\ tasks[Root].left = Slice(1, 8)
    /\ tasks[Root].right = Slice(9, 16)
    /\ At(buf, 7) # At(input, 7)
    /\ At(buf, 1) # At(input, 1)

-----------------------------------------------------------------------------
(* The leaf loop. *)

Within(s, span) == span.lo <= s.lo /\ s.hi <= span.hi

\* The surplus bytes complemented alone so far in the span of record r.
SurplusOf(r) ==
    {c.s : c \in {d \in log.consumed : d.how = "mid" /\ Within(d.s, Layout(desc)[r].seq)}}

\* The offset in the buffer of base k (from 0) of record r.
BaseOffset(r, k) == Layout(desc)[r].seq.lo + k + (k \div 60)

\* C13: in every iteration of the leaf loop on a well-formed text the two
\* chunks taken up to the newline in `right` differ in length by at most one
\* byte, the longer being the right one, and so do the two taken up to the
\* newline in `left`, the longer being the left one; both calls of
\* reverse_complement_chunk get two chunks of the same length; and in a
\* record at most one byte is ever the surplus: the middle base of a record
\* with an odd number of bases, which holds the complement of what it held.
C13_SurplusOnce ==
    AllWellFormed =>
        /\ \A k \in DOMAIN log.last.taken :
             \E a \in {SLen(log.last.taken[k][1])} : \E b \in {SLen(log.last.taken[k][2])} :
                 /\ k = 1 => (a = b \/ b = a + 1)
                 /\ k = 2 => (a = b \/ a = b + 1)
        /\ \A k \in DOMAIN log.last.chunks :
             SLen(log.last.chunks[k][1]) = SLen(log.last.chunks[k][2])
        /\ \A r \in 1..Len(desc) :
             \E ms \in {SurplusOf(r)} :
                 /\ Cardinality(ms) <= 1
                 /\ \A m \in ms :
                      /\ SLen(m) = 1
                      /\ desc[r].n % 2 = 1
                      /\ m.lo = BaseOffset(r, (desc[r].n - 1) \div 2)
                      /\ At(buf, m.lo) = cpl8(At(input, m.lo))

\* The last step was the iteration on 65 bases that took 28 bytes up to the
\* newline in `left` and 27 from `right`: base 32 is the surplus.
C13_Witness ==
    /\ desc = <<Rec(1, 65, "mixed", 0)>>
    /\ pass = 1
    /\ Len(log.last.taken) = 2
    /\ SLen(log.last.taken[2][1]) = 28 /\ SLen(log.last.taken[2][2]) = 27
    /\ SLen(log.last.chunks[2][1]) = 27
    /\ SurplusOf(1) = {Slice(Layout(desc)[1].seq.lo + 32, Layout(desc)[1].seq.lo + 33)}

-----------------------------------------------------------------------------
(* The cursors. *)

\* The span of record r without its final newline: what the engine works on.
WorkingSpan(r) == Slice(Layout(desc)[r].seq.lo, Layout(desc)[r].seq.hi - 1)

\* Record r has been given to the engine: no splitter and no call of
\* reverse_complement still holds its span.
Handed(r) ==
    \A id \in DOMAIN tasks :
        (tasks[id].kind \in {"split", "rc"} /\ tasks[id].pc = "call") =>
            Disjoint(tasks[id].left, Layout(desc)[r].seq)

\* The ranges not yet consumed: what the cursors of the live engine calls hold.
Cursors ==
    UNION {Footprint(tasks[id]) : id \in {k \in DOMAIN tasks : tasks[k].kind = "rclr" /\ Live(k)}}

\* The ranges consumed so far.
Consumed == {c.s : c \in log.consumed}

RECURSIVE SumLen(_)
SumLen(S) ==
    IF S = {} THEN 0
    ELSE LET x == CHOOSE y \in S : TRUE
         IN  SLen(x) + SumLen(S \ {x})

\* C14: while the records of a well-formed text are processed, in every
\* state the ranges the left and right cursors still hold are pairwise
\* disjoint and disjoint from every range consumed, no byte has been consumed
\* twice, and for every record given to the engine the ranges held and the
\* ranges consumed lie in its span without the final newline and add up to
\* its length: they make up exactly that span.  So when no cursor holds
\* anything, every byte of the span has been consumed exactly once: swapped,
\* complemented alone, or skipped.
C14_CursorsPartitionSpan ==
    AllWellFormed =>
        \E cur \in {Cursors} : \E con \in {Consumed} :
            /\ ~log.twice
            /\ \A s \in cur : \A t \in cur \cup con : s = t \/ Disjoint(s, t)
            /\ cur \cap con = {}
            /\ \A c \in log.consumed : c.how \in {"swap", "mid", "skip"}
            /\ \A s \in cur \cup con : \E r \in 1..Len(desc) : Within(s, WorkingSpan(r))
            /\ \A r \in 1..Len(desc) :
                 \E held \in {{s \in cur : Within(s, WorkingSpan(r))}} :
                 \E done \in {{s \in con : Within(s, WorkingSpan(r))}} :
                     IF Handed(r)
                     THEN SumLen(held) + SumLen(done) = SLen(WorkingSpan(r))
                     ELSE held = {} /\ done = {}

\* Both halves of the fork on 4035 bases are in their loops, each has skipped
\* a newline on either side, and all four cursors still hold bytes.
C14_Witness ==
    /\ desc = <<Rec(1, 4035, "upper", 0)>>
    /\ pass = 1
    /\ Cardinality(Cursors) = 4
    /\ Cardinality({c \in log.consumed : c.how = "skip"}) >= 4
    /\ \E i \in DOMAIN tasks : \E j \in DOMAIN tasks :
         /\ i # j
         /\ tasks[i].pc = "loop" /\ tasks[j].pc = "loop"
         /\ \E c \in log.consumed : c.s.hi <= tasks[i].left.lo

-----------------------------------------------------------------------------
(* The newlines. *)

\* The bytes slice s held when the run started; a range still held by a
\* cursor has not been written, so these are its bytes when it is consumed.
Held(s) == {At(input, o) : o \in s.lo..(s.hi - 1)}

\* C15: in every iteration of every leaf loop on a well-formed text, at
\* whatever depth of the recursion, a byte taken by one of the two "skip the
\* newline" steps is a newline, and no byte of a chunk given to
\* reverse_complement_chunk and no surplus byte is a newline: no newline is
\* looked up in a complement table.
C15_NewlinesOnlySkipped ==
    AllWellFormed =>
        /\ \A n \in log.last.skipped : Held(n) \subseteq {b_nl}
        /\ \A m \in log.last.mids : b_nl \notin Held(m)
        /\ \A k \in DOMAIN log.last.chunks :
             b_nl \notin Held(log.last.chunks[k][1]) \cup Held(log.last.chunks[k][2])

\* With a threshold of one line, a call at depth 2 of the recursion on 400
\* bases has just run an iteration that skipped a newline on both sides and
\* swapped two chunks.
C15_Witness ==
    /\ desc = <<Rec(1, 400, "mixed", 0)>>
    /\ threshold = Threshold(LINE_LEN)
    /\ log.last.taken # <<>>
    /\ log.last.who \in DOMAIN tasks
    /\ tasks[log.last.who].depth = 2
    /\ Cardinality({n \in log.last.skipped : SLen(n) = 1}) = 2
    /\ SLen(log.last.chunks[1][1]) > 0
    /\ SLen(log.last.chunks[2][1]) > 0

-----------------------------------------------------------------------------
(* Termination. *)

\* The live calls of reverse_complement_left_right.
EngineCalls == {id \in DOMAIN tasks : tasks[id].kind = "rclr"}

\* In a call about to take the recursive branch, mid is positive and smaller
\* than len; the `left` of a sub-call is shorter than its caller's; and the
\* recursion has not used up the stack.
RecursionShrinks ==
    \A id \in EngineCalls :
        \E len \in {SLen(tasks[id].left)} :
            /\ (tasks[id].pc = "call" /\ ~IsSequential(len, threshold)) =>
                   (0 < mid_of(len) /\ mid_of(len) < len /\ tasks[id].depth < MaxDepth)
            /\ tasks[id].pc = "join" =>
                   \A k \in Children(id) : SLen(tasks[k].left) < len

\* A step that is an iteration of the leaf loop of call `id` leaves fewer
\* bytes in `left` and `right` together than it found.
IterationShrinks ==
    \A id \in DOMAIN tasks :
        (log'.last.taken # <<>> /\ log'.last.who = id) =>
            /\ id \in DOMAIN tasks'
            /\ SLen(tasks'[id].left) + SLen(tasks'[id].right)
                 < SLen(tasks[id].left) + SLen(tasks[id].right)

\* C16: with SEQUENTIAL_SIZE = 2048 and LINE_LEN = 61, on a well-formed text,
\* every call of reverse_complement_left_right that is made returns: in the
\* recursive branch 0 < mid < len(left), so a sub-call's `left` is shorter
\* than its caller's and the depth is bounded; every iteration of the leaf
\* loop takes at least one byte off `left` or `right`; and from any state
\* with a live call a state is reached where all the calls have returned.
C16_EngineReturns ==
    /\ [](AllWellFormed => RecursionShrinks)
    /\ [][AllWellFormed => IterationShrinks]_vars
    /\ (AllWellFormed /\ EngineCalls # {}) ~> (EngineCalls = {})

\* The run on 4035 bases has finished: the engine forked on the 2051 bytes of
\* `left`, both calls ran their loops, and all the calls have returned.
C16_Witness ==
    /\ desc = <<Rec(1, 4035, "upper", 0)>>
    /\ pass = 1
    /\ Finished
    /\ EngineCalls = {}
    /\ SumLen(Consumed) = SLen(WorkingSpan(1))

\* ------------------------------------------------------------------------
\* The FASTA generator (src/src/fasta.rs).  A block is described by the
\* sequence it belongs to, its place in that sequence (0 is the header), its
\* length in bytes and the number of newlines `format` has put into it; the
\* bases themselves come from the random generators and play no part in the
\* hand-over between the threads.
\* ------------------------------------------------------------------------

LINE_LENGTH == 60
BLOCK_SIZE == LINE_LENGTH * 1024

\* The largest argument n, counted in halves of a block.
MaxHalfBlocks == 2

\* The values of the command-line argument n (1000 is the default).
Args ==
    {0, 1, 1000} \cup {k * (BLOCK_SIZE \div 2) + d : k \in 1..MaxHalfBlocks, d \in {0, 1}}

rc_vars == <<desc, orig, input, buf, tasks, status, pass, threshold, acc, table8, probe, log>>

num_lines(n) == (n - 1) \div LINE_LENGTH + 1

\* header.to_vec(): the length of the header line of a sequence.
header_len(seq) ==
    CASE seq = "ONE" -> 21
      [] seq = "TWO" -> 24
      [] seq = "THREE" -> 29

Block(seq, k, len) == [seq |-> seq, k |-> k, len |-> len, lines |-> 0]

\* format(block): the block grows by one newline per line.
format(block) ==
    IF block.len = 0
    THEN block
    ELSE [block EXCEPT !.len = block.len + num_lines(block.len),
                       !.lines = @ + num_lines(block.len)]

\* One call make_fasta(header, out_thread, n, f).
Call(seq, n) == [seq |-> seq, n |-> n]

\* A spawned thread: the calls it still has to make and its place in the first.
Producer(calls) == [calls |-> calls, pc |-> "header", i |-> 0]

\* The sender of a thread is dropped when its closure returns.
Disconnected(f, t) == f.thread[t].calls = <<>>

\* main, after both threads are spawned and `blocks` is built.
FastaStarted(n) ==
    [n      |-> n,
     thread |-> << Producer(<<Call("ONE", n * 2)>>),
                   Producer(<<Call("TWO", n * 3), Call("THREE", n * 5)>>) >>,
     rx     |-> << <<>>, <<>> >>,
     sent   |-> << <<>>, <<>> >>,
     main   |-> [pc |-> "next", group |-> <<>>, formatted |-> {}, a |-> TRUE, w |-> 0],
     output |-> <<>>]

InitFasta ==
    /\ \E n \in Args : fasta = FastaStarted(n)
    /\ status = "fasta"
    /\ desc = <<>> /\ orig = <<>> /\ input = <<>> /\ buf = <<>>
    /\ tasks = <<>>
    /\ pass = 1
    /\ threshold = Threshold(SEQUENTIAL_SIZE)
    /\ acc = NoAccess
    /\ table8 = <<>>
    /\ probe = NoProbe
    /\ log = NoLog

\* out_thread.send(block).unwrap(): the channel is unbounded, so send never waits.
send(f, t, block) ==
    [f EXCEPT !.rx[t] = Append(@, block), !.sent[t] = Append(@, block)]

\* make_fasta: out_thread.send(header.to_vec())
SendHeader(t) ==
    /\ status = "fasta"
    /\ ~Disconnected(fasta, t)
    /\ fasta.thread[t].pc = "header"
    /\ LET c == Head(fasta.thread[t].calls)
       IN  fasta' = [send(fasta, t, Block(c.seq, 0, header_len(c.seq)))
                        EXCEPT !.thread[t].pc = "blocks", !.thread[t].i = 0]
    /\ UNCHANGED rc_vars

\* make_fasta: one turn of `for _ in 0..num_blocks`
SendBlock(t) ==
    /\ status = "fasta"
    /\ ~Disconnected(fasta, t)
    /\ fasta.thread[t].pc = "blocks"
    /\ LET c == Head(fasta.thread[t].calls)
           i == fasta.thread[t].i
       IN  /\ i < c.n \div BLOCK_SIZE
           /\ fasta' = [send(fasta, t, Block(c.seq, i + 1, BLOCK_SIZE))
                           EXCEPT !.thread[t].i = i + 1]
    /\ UNCHANGED rc_vars

\* make_fasta: the trailing block, and the return to the thread's closure
Trailing(t) ==
    /\ status = "fasta"
    /\ ~Disconnected(fasta, t)
    /\ fasta.thread[t].pc = "blocks"
    /\ LET c == Head(fasta.thread[t].calls)
           i == fasta.thread[t].i
           trailing_len == c.n % BLOCK_SIZE
           f1 == IF trailing_len > 0
                 THEN send(fasta, t, Block(c.seq, i + 1, trailing_len))
                 ELSE fasta
       IN  /\ i = c.n \div BLOCK_SIZE
           /\ fasta' = [f1 EXCEPT !.thread[t] = Producer(Tail(fasta.thread[t].calls))]
    /\ UNCHANGED rc_vars

\* Faulty variant: the chain reads whichever receiver has a block.
chain_source_any(f) == IF f.rx[1] # <<>> THEN 1 ELSE 2

\* rx0.into_iter().chain(rx1): the receiver the next call of blocks.next() reads.
chain_source(f) == IF f.main.a THEN 1 ELSE 2

\* blocks.next() returns Some(block)
ChainNextSome ==
    /\ status = "fasta"
    /\ fasta.main.pc = "next"
    /\ LET src == chain_source(fasta)
           group == Append(fasta.main.group, Head(fasta.rx[src]))
       IN  /\ fasta.rx[src] # <<>>
           /\ fasta' = [fasta EXCEPT !.rx[src] = Tail(@),
                                     !.main.group = group,
                                     !.main.pc = IF Len(group) = 4 THEN "format" ELSE "next"]
    /\ UNCHANGED rc_vars

\* inside blocks.next(): rx0 is empty and disconnected, the chain turns to rx1
ChainFirstEnds ==
    /\ status = "fasta"
    /\ fasta.main.pc = "next"
    /\ fasta.main.a
    /\ fasta.rx[1] = <<>>
    /\ Disconnected(fasta, 1)
    /\ fasta' = [fasta EXCEPT !.main.a = FALSE]
    /\ UNCHANGED rc_vars

\* blocks.next() returns None: rx1 is empty and disconnected
ChainNextNone ==
    /\ status = "fasta"
    /\ fasta.main.pc = "next"
    /\ ~fasta.main.a
    /\ fasta.rx[2] = <<>>
    /\ Disconnected(fasta, 2)
    /\ fasta' = [fasta EXCEPT !.main.pc = IF fasta.main.group = <<>> THEN "done" ELSE "format"]
    /\ UNCHANGED rc_vars

\* one arm of the rayon::join calls: format(&mut block_k)
FormatBlock(k) ==
    /\ status = "fasta"
    /\ fasta.main.pc = "format"
    /\ k \in 1..Len(fasta.main.group)
    /\ k \notin fasta.main.formatted
    /\ fasta' = [fasta EXCEPT !.main.group[k] = format(@),
                              !.main.formatted = @ \cup {k}]
    /\ UNCHANGED rc_vars

\* every rayon::join has returned
JoinFormats ==
    /\ status = "fasta"
    /\ fasta.main.pc = "format"
    /\ fasta.main.formatted = 1..Len(fasta.main.group)
    /\ fasta' = [fasta EXCEPT !.main.pc = "write", !.main.w = 0]
    /\ UNCHANGED rc_vars

\* output.write_all(&block_w).unwrap(), and after the last one the next turn of the loop
WriteBlock ==
    /\ status = "fasta"
    /\ fasta.main.pc = "write"
    /\ LET w == fasta.main.w + 1
           last == w = Len(fasta.main.group)
       IN  fasta' = [fasta EXCEPT !.output = Append(@, fasta.main.group[w]),
                                  !.main.w = IF last THEN 0 ELSE w,
                                  !.main.group = IF last THEN <<>> ELSE @,
                                  !.main.formatted = IF last THEN {} ELSE @,
                                  !.main.pc = IF last THEN "next" ELSE "write"]
    /\ UNCHANGED rc_vars

NextFasta ==
    \/ \E t \in 1..2 : SendHeader(t)
    \/ \E t \in 1..2 : SendBlock(t)
    \/ \E t \in 1..2 : Trailing(t)
    \/ ChainNextSome
    \/ ChainFirstEnds
    \/ ChainNextNone
    \/ \E k \in 1..4 : FormatBlock(k)
    \/ JoinFormats
    \/ WriteBlock

\* The threads and the format tasks are scheduled: a step that can be taken is taken.
SpecFasta == InitFasta /\ [][NextFasta]_vars /\ WF_vars(NextFasta)

\* C17: in every interleaving of the two producers and of the format tasks,
\* the blocks written and the blocks of the group still to be written are, in
\* this order, the first blocks sent on channel 0 followed by the first sent
\* on channel 1, each once; what is written is each of them formatted once, so
\* the output has the header and blocks of ONE in send order, then those of
\* TWO, then those of THREE; the loop ends only when both producers have
\* finished and every block sent is written, and it does end.
Ident(b) == [seq |-> b.seq, k |-> b.k]

Idents(bs) == [i \in 1..Len(bs) |-> Ident(bs[i])]

Formatted(bs) == [i \in 1..Len(bs) |-> format(bs[i])]

ToWrite == SubSeq(fasta.main.group, fasta.main.w + 1, Len(fasta.main.group))

SeqRank(seq) == CASE seq = "ONE" -> 1 [] seq = "TWO" -> 2 [] seq = "THREE" -> 3

InSequenceOrder(bs) ==
    \A i \in 1..Len(bs) : \A j \in 1..Len(bs) :
        i < j => \/ SeqRank(bs[i].seq) < SeqRank(bs[j].seq)
                 \/ bs[i].seq = bs[j].seq /\ bs[i].k < bs[j].k

WrittenInOrder ==
    status = "fasta" =>
        /\ IsPrefix(fasta.output, Formatted(fasta.sent[1] \o fasta.sent[2]))
        /\ IsPrefix(Idents(fasta.output \o ToWrite), Idents(fasta.sent[1] \o fasta.sent[2]))
        /\ InSequenceOrder(fasta.output \o ToWrite)
        /\ fasta.main.pc = "done" =>
              /\ Disconnected(fasta, 1) /\ Disconnected(fasta, 2)
              /\ fasta.output = Formatted(fasta.sent[1] \o fasta.sent[2])

C17_WrittenOnceInOrder ==
    /\ []WrittenInOrder
    /\ (status = "fasta") ~> (status = "fasta" /\ fasta.main.pc = "done")

\* A group of four that took blocks from both channels is half written while
\* the second producer is still sending.
C17_Witness ==
    /\ status = "fasta"
    /\ fasta.main.pc = "write"
    /\ Len(fasta.main.group) = 4
    /\ fasta.main.w = 2
    /\ fasta.main.group[1].seq = "ONE"
    /\ fasta.main.group[4].seq = "TWO"
    /\ ~Disconnected(fasta, 2)

====
